---- MODULE Spec2Model ----
(***************************************************************************)
(* The Senate (delegated proof-of-stake) consensus engine of go-secret:    *)
(* header verification, batch verification, block preparation,             *)
(* finalisation and sealing, as implemented in                             *)
(* consensus/senate/consensus.go.                                          *)
(*                                                                         *)
(* A header hash is modelled by the header record itself (a collision-free *)
(* hash); a snapshot Root is modelled by the snapshot contents it          *)
(* addresses (a content-addressed store).  A seal is modelled by the       *)
(* identity of the key that produced it over the header's seal hash.       *)
(***************************************************************************)
EXTENDS Integers, Sequences, FiniteSets, TLC

(***************************************************************************)
(* Bounds of the model.                                                    *)
(***************************************************************************)
MaxTime == 3
MaxEpochSkew == 2
MaxBatch == 2

(***************************************************************************)
(* Program constants.                                                      *)
(***************************************************************************)
extraVanity == 32
extraSeal == 65
defaultDifficulty == 1

\* Length of an encoded HeaderExtra payload (any positive length will do).
EncodedLen == 8

\* A nil *big.Int (header.Number == nil, header.Difficulty == nil).
NilNumber == 0 - 1

\* Accounts, in ascending order of address.
AddrA == "A"
AddrB == "B"
AddrC == "C"
AddrOrder == <<AddrA, AddrB, AddrC>>
Addr == {AddrA, AddrB, AddrC}
\* The address recovered from a signature made over another message.
Stranger == "stranger"
\* common.Address{}
ZeroAddress == "0x0"

\* The value of a hash that is the hash of no header (common.Hash{}).
ZeroHash == [zero |-> TRUE]
\* A hash that is the hash of no header of the chain.
BogusHash == [zero |-> FALSE]
\* state.IntermediateRoot(...): the root of the account state handed to the
\* engine, which the engine does not look into.
StateRoot == [state |-> TRUE]

\* Seals: a 65-byte signature of an account over the header's seal hash,
\* 65 zero bytes (as Prepare leaves them), or a signature over something else.
ZeroSeal == "zero"
ForeignSeal == Stranger
Seals == Addr \cup {ZeroSeal, ForeignSeal}

(***************************************************************************)
(* SenateConfig, versioned by hash.  Hash 0 is the engine's base config    *)
(* (senate.config); hash 1 is a config adopted by governance; any other    *)
(* hash is unknown to the node.                                            *)
(***************************************************************************)
BaseConfig == [Period |-> 1, Epoch |-> 2, Validators |-> <<AddrA, AddrB>>, MaxValidatorsCount |-> 2]
AltConfig == [Period |-> 2, Epoch |-> 2, Validators |-> <<AddrA, AddrB>>, MaxValidatorsCount |-> 2]

chainConfigByHash(hash) ==
    IF hash = 0 THEN [err |-> "nil", config |-> BaseConfig]
    ELSE IF hash = 1 THEN [err |-> "nil", config |-> AltConfig]
    ELSE [err |-> "errUnknownConfig", config |-> BaseConfig]

(***************************************************************************)
(* Snapshot and Root.  The Root of a snapshot stands for its contents.     *)
(***************************************************************************)
EmptySnap == [epoch |-> 0, vals |-> <<>>, cands |-> {}, mint |-> {}, config |-> 0]
ZeroRoot == EmptySnap

newSnapshot(db) == [err |-> "nil", snap |-> EmptySnap]

loadSnapshot(db, root) ==
    IF root = ZeroRoot \/ root \in db
    THEN [err |-> "nil", snap |-> root]
    ELSE [err |-> "errSnapshotMissing", snap |-> EmptySnap]

SnapRoot(snap) == snap

\* One governance command replayed on a snapshot.
applyCommand(snap, cmd) ==
    IF cmd.op = "declare" THEN [snap EXCEPT !.cands = @ \cup {cmd.arg}]
    ELSE IF cmd.op = "cancel" THEN [snap EXCEPT !.cands = @ \ {cmd.arg}]
    ELSE IF cmd.op = "config" THEN [snap EXCEPT !.config = cmd.arg]
    ELSE snap

RECURSIVE applyLog(_, _)
applyLog(snap, log) ==
    IF log = <<>> THEN snap
    ELSE applyLog(applyCommand(snap, Head(log)), Tail(log))

MintBlock(snap, epoch, number, validator) ==
    [snap EXCEPT !.mint = @ \cup {<<epoch, number, validator>>}]

\* snap.apply(header, extra): epoch advance, governance log, mint record.
apply(snap, header, extra) ==
    LET s1 == IF extra.Epoch = snap.epoch + 1
              THEN [snap EXCEPT !.epoch = extra.Epoch, !.vals = extra.Validators]
              ELSE snap
        s2 == applyLog(s1, extra.Log)
    IN  [err |-> "nil", snap |-> MintBlock(s2, extra.Epoch, header.Number, header.Coinbase)]

(***************************************************************************)
(* Header-extra codec.  header.Extra is vanity || payload || seal; the     *)
(* model keeps its length, the decoded payload and the seal.               *)
(***************************************************************************)
NoPayload == [ok |-> FALSE, Root |-> ZeroRoot, Epoch |-> 0, EpochTime |-> 0,
              Validators |-> <<>>, Log |-> <<>>]

FullLen == extraVanity + EncodedLen + extraSeal

decodeHeaderExtra(header) ==
    IF header.Extra.len >= extraVanity + extraSeal /\ header.Extra.payload.ok
    THEN [err |-> "nil", extra |-> header.Extra.payload]
    ELSE [err |-> "errMalformedExtra", extra |-> NoPayload]

Hash(header) == header

(***************************************************************************)
(* The chain (consensus.ChainHeaderReader): a sequence of headers, the     *)
(* genesis block first.  An optional header is a sequence of length <= 1.  *)
(***************************************************************************)
Genesis ==
    [Number |-> 0, ParentHash |-> ZeroHash, Time |-> 0, Coinbase |-> AddrA,
     MixDigest |-> 0, UncleHash |-> "empty", Difficulty |-> defaultDifficulty,
     Root |-> StateRoot, TxHash |-> ZeroHash, ReceiptHash |-> ZeroHash, Bloom |-> 0,
     GasLimit |-> 0, GasUsed |-> 0, Nonce |-> 0,
     Extra |-> [len |-> extraVanity + extraSeal, vanity |-> 0, payload |-> NoPayload, seal |-> ZeroSeal]]

GetHeader(chain, hash, number) ==
    IF number >= 0 /\ number < Len(chain) /\ Hash(chain[number + 1]) = hash
    THEN <<chain[number + 1]>>
    ELSE <<>>

(***************************************************************************)
(* The signature cache: a bounded sequence of <<hash, address>> entries,   *)
(* oldest first.                                                           *)
(***************************************************************************)
SigCacheSize == 2

\* Variant: the lookup returns the oldest entry, whatever its key.
CacheGet_any(cache, hash) ==
    IF cache = <<>> THEN <<>> ELSE <<cache[1][2]>>

\* sigcache.Get(hash)
CacheGet(cache, hash) ==
    LET hits == {i \in 1..Len(cache) : cache[i][1] = hash}
    IN  IF hits = {} THEN <<>> ELSE <<cache[CHOOSE i \in hits : TRUE][2]>>

CacheAdd(cache, hash, address) ==
    IF CacheGet(cache, hash) # <<>> THEN cache
    ELSE IF Len(cache) >= SigCacheSize THEN Append(Tail(cache), <<hash, address>>)
    ELSE Append(cache, <<hash, address>>)

\* crypto.Ecrecover on the header's seal hash and seal bytes.
Recover(header) ==
    IF header.Extra.seal = ZeroSeal THEN [err |-> "errInvalidSignature", address |-> ZeroAddress]
    ELSE [err |-> "nil", address |-> header.Extra.seal]

ecrecover(header, sigcache) ==
    LET hash == Hash(header)
        hit == CacheGet(sigcache, hash)
        rec == Recover(header)
    IN  IF hit # <<>> THEN [err |-> "nil", address |-> hit[1], cache |-> sigcache]
        ELSE IF header.Extra.len < extraSeal
             THEN [err |-> "errMissingSignature", address |-> ZeroAddress, cache |-> sigcache]
        ELSE IF rec.err # "nil"
             THEN [err |-> rec.err, address |-> ZeroAddress, cache |-> sigcache]
        ELSE [err |-> "nil", address |-> rec.address,
              cache |-> CacheAdd(sigcache, hash, rec.address)]

(***************************************************************************)
(* The signing preimage and the seal hash.  Keccak-256 is modelled as      *)
(* collision-free: the hash of a preimage is the preimage, tagged.         *)
(***************************************************************************)
\* header.Extra[:len(header.Extra)-crypto.SignatureLength], for an Extra of
\* at least 65 bytes: what is left of the vanity and the payload.
sigPart(extra) ==
    LET cut == extra.len - extraSeal
    IN  [len |-> cut,
         vanity |-> IF extra.vanity < cut THEN extra.vanity ELSE cut,
         payload |-> IF cut >= extraVanity + EncodedLen THEN extra.payload ELSE NoPayload]

\* rlp.Encode of a *big.Int: a nil pointer is written as the empty string,
\* which is also the encoding of zero.
rlpBigInt(n) == IF n = NilNumber THEN 0 ELSE n

\* Variant: the whole of Extra, seal included, is signed.
SenateRLP_full(header) ==
    IF header.Extra.len < extraSeal THEN <<"panic">>
    ELSE <<header.ParentHash, header.UncleHash, header.Coinbase, header.Root,
           header.TxHash, header.ReceiptHash, header.Bloom,
           rlpBigInt(header.Difficulty), rlpBigInt(header.Number),
           header.GasLimit, header.GasUsed, header.Time,
           header.Extra, header.MixDigest, header.Nonce>>

\* encodeSigHeader: the RLP list of the header's fifteen fields, in the
\* order of the source, Extra without its last 65 bytes; it panics on an
\* Extra shorter than that.  Difficulty and Number are *big.Int.
SenateRLP(header) ==
    IF header.Extra.len < extraSeal THEN <<"panic">>
    ELSE <<header.ParentHash, header.UncleHash, header.Coinbase, header.Root,
           header.TxHash, header.ReceiptHash, header.Bloom,
           rlpBigInt(header.Difficulty), rlpBigInt(header.Number),
           header.GasLimit, header.GasUsed, header.Time,
           sigPart(header.Extra), header.MixDigest, header.Nonce>>

SealHash(header) ==
    IF header.Extra.len < extraSeal THEN [panic |-> TRUE]
    ELSE [keccak |-> SenateRLP(header)]

(***************************************************************************)
(* Slot scheduler: the validator that owns the slot of headerTime.  Times  *)
(* are uint64; for a headerTime before the epoch start the difference      *)
(* wraps, which for the periods and validator counts of this model (powers *)
(* of two) gives the slot that integer floor division gives.               *)
(***************************************************************************)
validatorsOf(config, parent) ==
    IF parent.Number = 0 THEN config.Validators
    ELSE decodeHeaderExtra(parent).extra.Root.vals

epochStartOf(parent) ==
    IF parent.Number = 0 THEN parent.Time
    ELSE decodeHeaderExtra(parent).extra.EpochTime

slotOwner(config, parent, headerTime) ==
    LET validators == validatorsOf(config, parent)
        slot == (headerTime - epochStartOf(parent)) \div config.Period
    IN  validators[(slot % Len(validators)) + 1]

inTurn(config, parent, headerTime, signer) ==
    /\ Len(validatorsOf(config, parent)) > 0
    /\ signer = slotOwner(config, parent, headerTime)

(***************************************************************************)
(* Header verification.  Every operation returns its error together with   *)
(* the store (db) and the signature cache as it leaves them.               *)
(***************************************************************************)
\* senate.chainConfig(header): the config in force after the given header.
chainConfig(header) ==
    IF header.Number = 0 THEN [err |-> "nil", config |-> BaseConfig]
    ELSE IF decodeHeaderExtra(header).err # "nil"
         THEN [err |-> decodeHeaderExtra(header).err, config |-> BaseConfig]
    ELSE chainConfigByHash(decodeHeaderExtra(header).extra.Root.config)

\* Variant: the in-turn check is made on the coinbase, not on the signer.
verifySeal_coinbase(config, header, parent, sigcache) ==
    LET rec == ecrecover(header, sigcache)
    IN  IF header.Number = 0 THEN [err |-> "errUnknownBlock", cache |-> sigcache]
        ELSE IF rec.err # "nil" THEN [err |-> rec.err, cache |-> rec.cache]
        ELSE IF ~inTurn(config, parent, header.Time, header.Coinbase)
             THEN [err |-> "errUnauthorized", cache |-> rec.cache]
        ELSE [err |-> "nil", cache |-> rec.cache]

verifySeal(config, header, parent, sigcache) ==
    LET rec == ecrecover(header, sigcache)
    IN  IF header.Number = 0 THEN [err |-> "errUnknownBlock", cache |-> sigcache]
        ELSE IF rec.err # "nil" THEN [err |-> rec.err, cache |-> rec.cache]
        ELSE IF ~inTurn(config, parent, header.Time, rec.address)
             THEN [err |-> "errUnauthorized", cache |-> rec.cache]
        ELSE [err |-> "nil", cache |-> rec.cache]

\* func (senate *Senate) VerifySeal(chain, header) error, for a header whose
\* parent the chain has (or whose number is 0); a nil Number panics.
VerifySeal(chain, header, sigcache) ==
    LET popt == GetHeader(chain, header.ParentHash, header.Number - 1)
        parent == popt[1]
        cfg == IF header.Number > 1 THEN chainConfig(parent)
               ELSE [err |-> "nil", config |-> BaseConfig]
    IN  IF header.Number = NilNumber THEN [err |-> "panic", cache |-> sigcache]
        ELSE IF cfg.err # "nil" THEN [err |-> cfg.err, cache |-> sigcache]
        ELSE verifySeal(cfg.config, header, parent, sigcache)

\* The parent verifyCascadingFields works with: the last of the batch
\* parents if there are any, else the chain's header.
parentOf(chain, header, parents) ==
    IF Len(parents) > 0 THEN <<parents[Len(parents)]>>
    ELSE GetHeader(chain, header.ParentHash, header.Number - 1)

\* The snapshot, config and parent extra that verification starts from.
parentState(db, header, parent) ==
    LET headerExtra == decodeHeaderExtra(header).extra
        pdec == decodeHeaderExtra(parent)
        cfg == chainConfigByHash(pdec.extra.Root.config)
        ld == loadSnapshot(db, pdec.extra.Root)
        nw == newSnapshot(db)
    IN  IF parent.Number = 0
        THEN [err |-> nw.err, snap |-> nw.snap, config |-> BaseConfig,
              parentHeaderExtra |-> headerExtra]
        ELSE IF pdec.err # "nil"
             THEN [err |-> pdec.err, snap |-> EmptySnap, config |-> BaseConfig,
                   parentHeaderExtra |-> pdec.extra]
        ELSE IF cfg.err # "nil"
             THEN [err |-> cfg.err, snap |-> EmptySnap, config |-> BaseConfig,
                   parentHeaderExtra |-> pdec.extra]
        ELSE [err |-> ld.err, snap |-> ld.snap, config |-> cfg.config,
              parentHeaderExtra |-> pdec.extra]

epochContinuous(header, headerExtra, parentHeaderExtra) ==
    \/ /\ headerExtra.Epoch = parentHeaderExtra.Epoch
       /\ headerExtra.EpochTime = parentHeaderExtra.EpochTime
    \/ /\ headerExtra.Epoch = parentHeaderExtra.Epoch + 1
       /\ headerExtra.EpochTime = header.Time

timestampOrdered(parent, header) == ~(parent.Time > header.Time)

\* Variant: the declared root is not compared.
rootMatches_any(root, headerExtra) == TRUE

rootMatches(root, headerExtra) == root = headerExtra.Root

\* Variant: the snapshot is committed as soon as the root matches, before
\* the seal is verified.
verifyCascadingFields_early(chain, header, parents, db, sigcache, commitOk) ==
    LET keep(e) == [err |-> e, db |-> db, cache |-> sigcache]
        popt == parentOf(chain, header, parents)
        parent == popt[1]
        hdec == decodeHeaderExtra(header)
        headerExtra == hdec.extra
        ps == parentState(db, header, parent)
        ap == apply(ps.snap, header, headerExtra)
        root == SnapRoot(ap.snap)
        vs == verifySeal(ps.config, header, parent, sigcache)
    IN  IF header.Number = 0 THEN keep("nil")
        ELSE IF popt = <<>> \/ parent.Number # header.Number - 1
                \/ Hash(parent) # header.ParentHash
             THEN keep("ErrUnknownAncestor")
        ELSE IF ~timestampOrdered(parent, header) THEN keep("ErrInvalidTimestamp")
        ELSE IF hdec.err # "nil" THEN keep(hdec.err)
        ELSE IF ps.err # "nil" THEN keep(ps.err)
        ELSE IF ~epochContinuous(header, headerExtra, ps.parentHeaderExtra)
             THEN keep("ErrInvalidTimestamp")
        ELSE IF ap.err # "nil" THEN keep(ap.err)
        ELSE IF ~rootMatches(root, headerExtra) THEN keep("invalid trie root")
        ELSE IF ~commitOk
             THEN [err |-> "failed to write snapshot", db |-> db, cache |-> sigcache]
        ELSE IF vs.err # "nil"
             THEN [err |-> vs.err, db |-> db \cup {root}, cache |-> vs.cache]
        ELSE [err |-> "nil", db |-> db \cup {root}, cache |-> vs.cache]

verifyCascadingFields(chain, header, parents, db, sigcache, commitOk) ==
    LET keep(e) == [err |-> e, db |-> db, cache |-> sigcache]
        popt == parentOf(chain, header, parents)
        parent == popt[1]
        hdec == decodeHeaderExtra(header)
        headerExtra == hdec.extra
        ps == parentState(db, header, parent)
        ap == apply(ps.snap, header, headerExtra)
        root == SnapRoot(ap.snap)
        vs == verifySeal(ps.config, header, parent, sigcache)
    IN  IF header.Number = 0 THEN keep("nil")
        ELSE IF popt = <<>> \/ parent.Number # header.Number - 1
                \/ Hash(parent) # header.ParentHash
             THEN keep("ErrUnknownAncestor")
        ELSE IF ~timestampOrdered(parent, header) THEN keep("ErrInvalidTimestamp")
        ELSE IF hdec.err # "nil" THEN keep(hdec.err)
        ELSE IF ps.err # "nil" THEN keep(ps.err)
        ELSE IF ~epochContinuous(header, headerExtra, ps.parentHeaderExtra)
             THEN keep("ErrInvalidTimestamp")
        ELSE IF ap.err # "nil" THEN keep(ap.err)
        ELSE IF ~rootMatches(root, headerExtra) THEN keep("invalid trie root")
        ELSE IF vs.err # "nil" THEN [err |-> vs.err, db |-> db, cache |-> vs.cache]
        ELSE IF ~commitOk
             THEN [err |-> "failed to write snapshot", db |-> db, cache |-> vs.cache]
        ELSE [err |-> "nil", db |-> db \cup {root}, cache |-> vs.cache]

\* Variant: a header timed at the current second counts as future.
futureBlock_eq(header, now) == header.Time >= now

futureBlock(header, now) == header.Time > now

verifyHeader(chain, header, parents, db, sigcache, now, commitOk) ==
    LET keep(e) == [err |-> e, db |-> db, cache |-> sigcache]
    IN  IF header.Number = NilNumber THEN keep("errUnknownBlock")
        ELSE IF futureBlock(header, now) THEN keep("ErrFutureBlock")
        ELSE IF header.Extra.len < extraVanity THEN keep("errMissingVanity")
        ELSE IF header.Extra.len < extraVanity + extraSeal THEN keep("errMissingSignature")
        ELSE IF header.MixDigest # 0 THEN keep("errInvalidMixDigest")
        ELSE IF header.UncleHash # "empty" THEN keep("errInvalidUncleHash")
        ELSE verifyCascadingFields(chain, header, parents, db, sigcache, commitOk)

(***************************************************************************)
(* Minting: Prepare, FinalizeAndAssemble and the synchronous part of Seal. *)
(***************************************************************************)
\* header.Time = max(parent.Time + config.Period, now)
slotTime(config, parent, now) ==
    IF parent.Time + config.Period < now THEN now ELSE parent.Time + config.Period

\* 2^w modulo m.
RECURSIVE Pow2Mod(_, _)
Pow2Mod(w, m) == IF w = 0 THEN 1 % m ELSE (2 * Pow2Mod(w - 1, m)) % m

\* Whether Prepare opens a new epoch at headerTime.  duration is a uint64:
\* when headerTime lies before epochTime the subtraction wraps to
\* 2^64 - (epochTime - headerTime), which is at least config.Epoch for every
\* epoch length below 2^63, and whose remainder is taken modulo config.Epoch
\* without forming the 64-bit value.
epochCrossed(config, epochTime, headerTime) ==
    LET wrapped == headerTime < epochTime
        back == epochTime - headerTime
        duration == headerTime - epochTime
        quotient == IF wrapped THEN 1 ELSE duration \div config.Epoch
        remainder == IF wrapped
                     THEN (Pow2Mod(64, config.Epoch) + config.Epoch
                               - (back % config.Epoch)) % config.Epoch
                     ELSE duration % config.Epoch
    IN  quotient >= 1 /\ remainder > 0

\* Variant: what followed the vanity in the Extra passed in is kept.
frameExtra_keep(extra, payload) ==
    [len |-> (IF extra.len > extraVanity THEN extra.len ELSE extraVanity)
                 + EncodedLen + extraSeal,
     vanity |-> extra.vanity, payload |-> payload, seal |-> ZeroSeal]

\* Extra = vanity(32) || encode(extra) || zero(65): the Extra passed in is
\* padded with zeros or cut to the vanity.  The vanity of the model is the
\* number of its leading bytes the miner wrote; the others are zero.
frameExtra(extra, payload) ==
    [len |-> FullLen, vanity |-> extra.vanity, payload |-> payload, seal |-> ZeroSeal]

Prepare(chain, header, now) ==
    LET h0 == [header EXCEPT !.MixDigest = 0, !.Difficulty = defaultDifficulty]
        popt == GetHeader(chain, header.ParentHash, header.Number - 1)
        parent == popt[1]
        pdec == decodeHeaderExtra(parent)
        cfg == chainConfigByHash(pdec.extra.Root.config)
        t1 == slotTime(BaseConfig, parent, now)
        t2 == slotTime(cfg.config, parent, now)
        first == [NoPayload EXCEPT !.ok = TRUE, !.Epoch = 1, !.EpochTime = t1]
        inherit == [NoPayload EXCEPT !.ok = TRUE, !.Root = pdec.extra.Root,
                                     !.Epoch = pdec.extra.Epoch,
                                     !.EpochTime = pdec.extra.EpochTime]
        advance == [inherit EXCEPT !.Epoch = pdec.extra.Epoch + 1, !.EpochTime = t2]
    IN  IF popt = <<>> THEN [err |-> "ErrUnknownAncestor", header |-> h0]
        ELSE IF header.Number = 1
             THEN [err |-> "nil",
                   header |-> [h0 EXCEPT !.Time = t1, !.Extra = frameExtra(@, first)]]
        ELSE IF pdec.err # "nil" THEN [err |-> pdec.err, header |-> h0]
        ELSE IF cfg.err # "nil" THEN [err |-> cfg.err, header |-> h0]
        ELSE [err |-> "nil",
              header |-> [h0 EXCEPT !.Time = t2,
                  !.Extra = frameExtra(@, IF epochCrossed(cfg.config, pdec.extra.EpochTime, t2)
                                          THEN advance ELSE inherit)]]

\* The lowest address of a non-empty set of addresses.
AddrRank(a) == CHOOSE i \in 1..Len(AddrOrder) : AddrOrder[i] = a
MinOf(S) == CHOOSE a \in S : \A b \in S : AddrRank(a) <= AddrRank(b)

RECURSIVE SortAsc(_)
SortAsc(S) == IF S = {} THEN <<>> ELSE <<MinOf(S)>> \o SortAsc(S \ {MinOf(S)})

\* The elector: bootstrap validators in the first epoch, afterwards the
\* candidates by address, at most MaxValidatorsCount of them.
elect(config, snap) ==
    IF snap.epoch = 0 THEN config.Validators
    ELSE SubSeq(SortAsc(snap.cands), 1,
                IF Cardinality(snap.cands) < config.MaxValidatorsCount
                THEN Cardinality(snap.cands) ELSE config.MaxValidatorsCount)

\* processTransactions: the governance commands of the block are replayed
\* on the snapshot and logged in the header extra.
processTransactions(snap, headerExtra, txs) ==
    [snap |-> applyLog(snap, txs), extra |-> [headerExtra EXCEPT !.Log = txs]]

\* tryElect: in the first block of an epoch, elect and record the validators.
tryElect(config, snap, headerExtra) ==
    IF headerExtra.Epoch # snap.epoch + 1
    THEN [err |-> "nil", snap |-> snap, extra |-> headerExtra]
    ELSE IF elect(config, snap) = <<>>
         THEN [err |-> "errElectionFailed", snap |-> snap, extra |-> headerExtra]
    ELSE [err |-> "nil",
          snap |-> [snap EXCEPT !.epoch = headerExtra.Epoch, !.vals = elect(config, snap)],
          extra |-> [headerExtra EXCEPT !.Validators = elect(config, snap)]]

\* types.DeriveSha over a list: the root of the trie of its items.
DeriveSha(list) == [root |-> list]
EmptyRootHash == DeriveSha(<<>>)

\* The receipts handed in with the transactions: one for each transaction.
receiptsOf(txs) == [i \in 1..Len(txs) |-> [receiptOf |-> txs[i]]]

\* types.CreateBloom(receipts): the receipts of the model carry no logs.
CreateBloom(receipts) == 0

\* The header of types.NewBlock(header, txs, nil, receipts, ...): a copy of
\* the header with TxHash, ReceiptHash and Bloom taken from the transactions
\* and the receipts, and the uncle hash of no uncles.
NewBlock(header, txs, receipts) ==
    [header EXCEPT
        !.TxHash = IF txs = <<>> THEN EmptyRootHash ELSE DeriveSha(txs),
        !.ReceiptHash = IF receipts = <<>> THEN EmptyRootHash ELSE DeriveSha(receipts),
        !.Bloom = IF receipts = <<>> THEN @ ELSE CreateBloom(receipts),
        !.UncleHash = "empty"]

\* The result holds the error, the header passed in as the call leaves it,
\* the header of the block returned (the header passed in when there is
\* none) and the store.
FinalizeAndAssemble(chain, header, db, txs, commitOk) ==
    LET fail(e) == [err |-> e, header |-> header, block |-> header, db |-> db]
        old == decodeHeaderExtra(header)
        popt == GetHeader(chain, header.ParentHash, header.Number - 1)
        parent == popt[1]
        pdec == decodeHeaderExtra(parent)
        extra0 == [NoPayload EXCEPT !.ok = TRUE, !.Epoch = old.extra.Epoch,
                                    !.EpochTime = old.extra.EpochTime,
                                    !.Root = IF header.Number > 1 THEN pdec.extra.Root
                                             ELSE ZeroRoot]
        ld == loadSnapshot(db, extra0.Root)
        cfg == chainConfig(parent)
        s1 == MintBlock(ld.snap, extra0.Epoch, header.Number, header.Coinbase)
        pt == processTransactions(s1, extra0, txs)
        el == tryElect(cfg.config, pt.snap, pt.extra)
        root == SnapRoot(el.snap)
        extra1 == [el.extra EXCEPT !.Root = root]
    IN  IF old.err # "nil" THEN fail(old.err)
        ELSE IF header.Number > 1 /\ pdec.err # "nil" THEN fail(pdec.err)
        ELSE IF ld.err # "nil" THEN fail(ld.err)
        ELSE IF cfg.err # "nil" THEN fail(cfg.err)
        ELSE IF el.err # "nil" THEN fail(el.err)
        ELSE IF ~commitOk THEN fail("errCommit")
        ELSE LET done == [header EXCEPT !.Extra = frameExtra(@, extra1),
                                         !.Root = StateRoot,
                                         !.UncleHash = "empty"]
             IN  [err |-> "nil", header |-> done,
                  block |-> NewBlock(done, txs, receiptsOf(txs)),
                  db |-> db \cup {root}]

\* func (senate *Senate) Finalize(chain, header, state, txs, uncles), for a
\* header whose parent the chain has.  It returns nothing: it completes
\* (out = "done") or panics.  The extra it rebuilds takes Root, Epoch and
\* EpochTime from the header; the log and the validators come from
\* processTransactions and tryElect on the parent's snapshot.
\* For a block above 1 the error of loadSnapshot is assigned to an err
\* declared inside the else block, so the test that follows reads the outer
\* err and never sees it: Finalize goes on with the snapshot loadSnapshot
\* returned beside its error.  Whether the snapshot code then panics on that
\* value is not decided in this file: `lost` is that outcome.
Finalize(chain, header, db, txs, lost) ==
    LET panic == [out |-> "panic", header |-> header]
        hdec == decodeHeaderExtra(header)
        headerExtra == hdec.extra
        popt == GetHeader(chain, header.ParentHash, header.Number - 1)
        parent == popt[1]
        pdec == decodeHeaderExtra(parent)
        sn == IF header.Number <= 1 THEN newSnapshot(db)
              ELSE loadSnapshot(db, pdec.extra.Root)
        cfg == chainConfig(parent)
        temp == [NoPayload EXCEPT !.ok = TRUE, !.Root = headerExtra.Root,
                                  !.Epoch = headerExtra.Epoch,
                                  !.EpochTime = headerExtra.EpochTime]
        pt == processTransactions(sn.snap, temp, txs)
        el == tryElect(cfg.config, pt.snap, pt.extra)
    IN  IF hdec.err # "nil" THEN panic
        ELSE IF header.Number > 1 /\ pdec.err # "nil" THEN panic
        ELSE IF header.Number <= 1 /\ sn.err # "nil" THEN panic
        ELSE IF cfg.err # "nil" THEN panic
        ELSE IF header.Number > 1 /\ sn.err # "nil" /\ lost THEN panic
        ELSE IF el.err # "nil" \/ el.extra # headerExtra THEN panic
        ELSE [out |-> "done", header |-> [header EXCEPT !.Root = StateRoot,
                                                        !.UncleHash = "empty"]]

\* Variant: Seal signs whether or not the coinbase is in turn.
Seal_noturn(chain, header, signer, signOk) ==
    LET fail(e) == [err |-> e, header |-> header]
        popt == GetHeader(chain, header.ParentHash, header.Number - 1)
        parent == popt[1]
        cfg == chainConfig(parent)
    IN  IF header.Number = 0 THEN fail("errUnknownBlock")
        ELSE IF header.Extra.len < extraVanity THEN fail("errMissingVanity")
        ELSE IF header.Extra.len < extraVanity + extraSeal THEN fail("errMissingSignature")
        ELSE IF cfg.err # "nil" THEN fail(cfg.err)
        ELSE IF ~signOk THEN fail("errSign")
        ELSE [err |-> "nil", header |-> [header EXCEPT !.Extra.seal = signer]]

\* The synchronous part of Seal: checks, then the signature of the engine's
\* signer over the header, written into the seal bytes.
Seal(chain, header, signer, signOk) ==
    LET fail(e) == [err |-> e, header |-> header]
        popt == GetHeader(chain, header.ParentHash, header.Number - 1)
        parent == popt[1]
        cfg == chainConfig(parent)
    IN  IF header.Number = 0 THEN fail("errUnknownBlock")
        ELSE IF header.Extra.len < extraVanity THEN fail("errMissingVanity")
        ELSE IF header.Extra.len < extraVanity + extraSeal THEN fail("errMissingSignature")
        ELSE IF cfg.err # "nil" THEN fail(cfg.err)
        ELSE IF ~inTurn(cfg.config, parent, header.Time, header.Coinbase)
             THEN fail("errUnauthorized")
        ELSE IF ~signOk THEN fail("errSign")
        ELSE [err |-> "nil", header |-> [header EXCEPT !.Extra.seal = signer]]

\* Variant: the timer of the sealing task fires at once.
timerFired_atOnce(header, now) == TRUE

\* <-time.After(delay), delay being header.Time - now when Seal was called:
\* the timer has fired once the clock has reached header.Time.
timerFired(header, now) == now >= header.Time

(***************************************************************************)
(* Nodes.  A node is a chain, a snapshot store and a signature cache.      *)
(* The nodes considered are those that minted their chain themselves and   *)
(* verified every block of it.                                             *)
(***************************************************************************)
TxChoices == {<<>>, <<[op |-> "declare", arg |-> AddrC]>>, <<[op |-> "config", arg |-> 1]>>}

Tip(chain) == chain[Len(chain)]

\* The header a miner hands to Prepare.
blankHeader(chain, coinbase) ==
    [Number |-> Len(chain), ParentHash |-> Hash(Tip(chain)), Time |-> 0,
     Coinbase |-> coinbase, MixDigest |-> 0, UncleHash |-> "empty",
     Difficulty |-> 0,
     Root |-> ZeroHash, TxHash |-> ZeroHash, ReceiptHash |-> ZeroHash, Bloom |-> 0,
     GasLimit |-> 0, GasUsed |-> 0, Nonce |-> 0,
     Extra |-> [len |-> 0, vanity |-> 0, payload |-> NoPayload, seal |-> ZeroSeal]]

\* Prepare, FinalizeAndAssemble and Seal in a row, by an engine whose signer
\* is `signer`, at time `now`.
mint(chain, db, now, coinbase, signer, txs) ==
    LET p == Prepare(chain, blankHeader(chain, coinbase), now)
        f == FinalizeAndAssemble(chain, p.header, db, txs, TRUE)
        s == Seal(chain, f.block, signer, TRUE)
    IN  IF p.err # "nil" THEN [err |-> p.err, header |-> p.header, db |-> db]
        ELSE IF f.err # "nil" THEN [err |-> f.err, header |-> f.header, db |-> db]
        ELSE [err |-> s.err, header |-> s.header, db |-> f.db]

Node0 == [chain |-> <<Genesis>>, db |-> {}, cache |-> <<>>]

\* The nodes reached from `node` by minting one block at time `t` and
\* verifying it once its slot has come.
grow(node, t) ==
    LET minted == {mint(node.chain, node.db, t, a, a, txs) : a \in Addr, txs \in TxChoices}
        ver(m) == verifyHeader(node.chain, m.header, <<>>, m.db, node.cache,
                               m.header.Time, TRUE)
        good == {m \in minted : m.err = "nil" /\ m.header.Time <= MaxTime}
    IN  {[chain |-> Append(node.chain, m.header), db |-> ver(m).db, cache |-> ver(m).cache] :
            m \in {g \in good : ver(g).err = "nil"}}

Nodes1 == grow(Node0, 1)

\* How far after its Time a peer's block declares its EpochTime: an odd and
\* an even distance from the Time Prepare gives the next block.
AheadSkews == {2, 3}

\* The nodes reached from `node` by verifying a block a peer assembled at
\* time `t` the way mint does, but declaring an EpochTime `skew` after the
\* block's Time.  On the genesis node the epoch continuity of block 1 is
\* compared with the block itself, so verifyHeader accepts such blocks.
growAhead(node, t, skew) ==
    LET ahead(a) ==
            LET p == Prepare(node.chain, blankHeader(node.chain, a), t)
                h == [p.header EXCEPT !.Extra.payload.EpochTime = p.header.Time + skew]
                f == FinalizeAndAssemble(node.chain, h, node.db, <<>>, TRUE)
                s == Seal(node.chain, f.block, a, TRUE)
            IN  IF p.err # "nil" THEN [err |-> p.err, header |-> p.header, db |-> node.db]
                ELSE IF f.err # "nil" THEN [err |-> f.err, header |-> f.header, db |-> node.db]
                ELSE [err |-> s.err, header |-> s.header, db |-> f.db]
        ver(m) == verifyHeader(node.chain, m.header, <<>>, m.db, node.cache,
                               m.header.Time, TRUE)
        good == {m \in {ahead(a) : a \in Addr} : m.err = "nil"}
    IN  {[chain |-> Append(node.chain, m.header), db |-> ver(m).db, cache |-> ver(m).cache] :
            m \in {g \in good : ver(g).err = "nil"}}

AheadNodes1 == UNION {growAhead(Node0, 1, skew) : skew \in AheadSkews}
Nodes2 == UNION {grow(n, 2) : n \in Nodes1}
Nodes == {Node0} \cup Nodes1 \cup Nodes2

(***************************************************************************)
(* The headers a peer may offer to a node whose chain is `ch`: children of *)
(* a block of the chain (or of no block), whose consensus fields are drawn *)
(* independently.  parentSel is the position of the parent in the chain,   *)
(* 0 for the tip, -1 for a parent hash unknown to the chain.               *)
(***************************************************************************)
headerOn(ch, parentSel, number, time, coinbase, mix, uncle, len, ok, epochDelta,
         etSel, rootRight, log, seal) ==
    LET parent == IF parentSel <= 0 THEN Tip(ch) ELSE ch[parentSel]
        pextra == decodeHeaderExtra(parent).extra
        psnap == IF parent.Number = 0 THEN EmptySnap ELSE pextra.Root
        extra0 == [ok |-> ok, Root |-> psnap, Epoch |-> pextra.Epoch + epochDelta,
                   EpochTime |-> IF etSel = "time" THEN time ELSE pextra.EpochTime,
                   Validators |-> BaseConfig.Validators, Log |-> log]
        h0 == [Number |-> number,
               ParentHash |-> IF parentSel < 0 THEN BogusHash ELSE Hash(parent),
               Time |-> time, Coinbase |-> coinbase, MixDigest |-> mix,
               UncleHash |-> uncle, Difficulty |-> defaultDifficulty,
               Root |-> StateRoot, TxHash |-> ZeroHash, ReceiptHash |-> ZeroHash,
               Bloom |-> 0, GasLimit |-> 0, GasUsed |-> 0, Nonce |-> 0,
               Extra |-> [len |-> len, vanity |-> 0, payload |-> extra0, seal |-> seal]]
        root == apply(psnap, h0, extra0).snap
    IN  IF len < FullLen
        THEN [h0 EXCEPT !.Extra.payload = NoPayload, !.Extra.seal = ZeroSeal]
        ELSE IF rootRight THEN [h0 EXCEPT !.Extra.payload.Root = root]
        ELSE h0

\* Headers that differ in the fields the stateless checks look at.
BasicOffers(ch) ==
    {headerOn(ch, 0, n, t, AddrA, mix, uncle, len, TRUE, 0, "parent", TRUE, <<>>, seal) :
        n \in {NilNumber, 0, Len(ch)}, t \in 0..MaxTime, mix \in {0, 1},
        uncle \in {"empty", "other"},
        len \in {extraVanity - 1, extraVanity + extraSeal - 1, FullLen},
        seal \in {AddrA, AddrB}}

\* Headers that pass the stateless checks and differ in the cascading fields.
CascadeOffers(ch) ==
    {headerOn(ch, ps, n, t, AddrA, 0, "empty", FullLen, ok, ed, et, rr, <<>>, seal) :
        ps \in {0 - 1, 0, 1}, n \in {Len(ch), Len(ch) + 1}, t \in 0..MaxTime,
        ok \in BOOLEAN, ed \in 0..MaxEpochSkew, et \in {"parent", "time"},
        rr \in BOOLEAN, seal \in {AddrA, AddrB, ZeroSeal, ForeignSeal}}

Offers(ch) == BasicOffers(ch) \cup CascadeOffers(ch)

\* The headers of a batch handed to VerifyHeaders: each one built on the
\* one before it.
BatchOffers(ch) ==
    {headerOn(ch, 0, Len(ch), t, AddrA, 0, "empty", FullLen, TRUE,
              IF Len(ch) = 1 THEN 1 ELSE 0,
              IF Len(ch) = 1 THEN "time" ELSE "parent", rr, <<>>, seal) :
        t \in {Tip(ch).Time + 1, MaxTime}, rr \in BOOLEAN, seal \in {AddrA, AddrB}}
    \cup {headerOn(ch, 0, NilNumber, Tip(ch).Time + 1, AddrA, 0, "empty", FullLen,
                   TRUE, 0, "parent", TRUE, <<>>, AddrB)}

RECURSIVE Batches(_, _)
Batches(ch, k) ==
    IF k = 0 THEN {<<>>}
    ELSE {<<>>} \cup UNION {{<<h>> \o rest : rest \in Batches(Append(ch, h), k - 1)} :
                              h \in BatchOffers(ch)}

(***************************************************************************)
(* State.                                                                  *)
(***************************************************************************)
VARIABLES
    chain,        \* the node's chain of headers (chain.GetHeader)
    db,           \* senate.db: the roots of the committed snapshots
    signatures,   \* senate.signatures: the signature cache
    now,          \* time.Now().Unix()
    last,         \* the last VerifyHeader call: its input, its outcome and
                  \* the store and cache it started from
    headers,      \* VerifyHeaders: the batch
    vpc,          \* VerifyHeaders: where the call and its background task are
    idx,          \* VerifyHeaders: the loop index i of the task
    verr,         \* VerifyHeaders: err of the header just verified
    results,      \* VerifyHeaders: the buffered results channel
    abort,        \* VerifyHeaders: whether the abort channel is closed
    received,     \* what the caller has read from results
    sent,         \* every value sent on results, in order
    oks,          \* whether the store accepted the write, per verified header
    start,        \* the store and the cache when VerifyHeaders was called
    signer,       \* senate.signer
    work,         \* minting: the header being prepared, assembled and sealed
    mpc,          \* minting: the step the miner is at
    merr,         \* minting: the error of the last step
    prep,         \* minting: the time Prepare ran at
    given,        \* minting: the header that was handed to Prepare
    sealIn,       \* Seal: the header it was called with and what it returned
    stop,         \* Seal: whether the stop channel is closed
    sealOut,      \* Seal: the blocks sent on the results channel
    hashed,       \* SealHash: two headers, their signing preimages and hashes
    fin           \* Finalize: the block it was called on and how it ended

nodeVars == <<chain, db, signatures, now>>
batchVars == <<headers, vpc, idx, verr, results, abort, received, sent, oks, start>>
mintVars == <<signer, work, mpc, merr, prep, given, sealIn, stop, sealOut>>
vars == <<chain, db, signatures, now, last, headers, vpc, idx, verr, results, abort,
          received, sent, oks, start, signer, work, mpc, merr, prep, given, sealIn,
          stop, sealOut, hashed, fin>>
auxVars == <<hashed, fin>>

NoCall == [called |-> FALSE, via |-> "VerifyHeader", header |-> Genesis, err |-> "nil",
           at |-> 0, db0 |-> {}, cache0 |-> <<>>, commitOk |-> TRUE]

InitNode(nodes) ==
    \E node \in nodes :
        /\ chain = node.chain
        /\ db = node.db
        /\ signatures = node.cache

InitBatchVars ==
    /\ headers = <<>>
    /\ vpc = "idle"
    /\ idx = 0
    /\ verr = "nil"
    /\ results = <<>>
    /\ abort = FALSE
    /\ received = <<>>
    /\ sent = <<>>
    /\ oks = <<>>
    /\ start = [db |-> {}, cache |-> <<>>]

NoSeal == [called |-> FALSE, header |-> Genesis, signOk |-> TRUE, signer |-> ZeroAddress,
           err |-> "nil"]

InitMintVars ==
    /\ signer = AddrA
    /\ work = Genesis
    /\ mpc = "idle"
    /\ merr = "nil"
    /\ prep = 0
    /\ given = Genesis
    /\ sealIn = NoSeal
    /\ stop = FALSE
    /\ sealOut = <<>>

NoHashed == [called |-> FALSE]
NoFin == [pc |-> "idle"]

InitAuxVars ==
    /\ hashed = NoHashed
    /\ fin = NoFin

(***************************************************************************)
(* Verification of single headers: VerifyHeader on a node, at any time.    *)
(***************************************************************************)
InitVerify ==
    /\ InitAuxVars
    /\ InitNode(Nodes)
    /\ now = 0
    /\ last = NoCall
    /\ InitBatchVars
    /\ InitMintVars

Tick ==
    /\ now < MaxTime
    /\ ~last.called
    /\ now' = now + 1
    /\ UNCHANGED <<auxVars, chain, db, signatures, last, batchVars, mintVars>>

\* func (senate *Senate) VerifyHeader(chain, header, seal) error
VerifyHeader ==
    /\ ~last.called
    /\ now >= Tip(chain).Time
    /\ \E header \in Offers(chain), commitOk \in BOOLEAN :
        LET r == verifyHeader(chain, header, <<>>, db, signatures, now, commitOk)
        IN  /\ db' = r.db
            /\ signatures' = r.cache
            /\ last' = [called |-> TRUE, via |-> "VerifyHeader", header |-> header,
                        err |-> r.err, at |-> now, db0 |-> db, cache0 |-> signatures,
                        commitOk |-> commitOk]
    /\ UNCHANGED <<auxVars, chain, now, batchVars, mintVars>>

\* func (senate *Senate) VerifySeal(chain, header) error
VerifySealCall ==
    /\ ~last.called
    /\ now >= Tip(chain).Time
    /\ \E header \in CascadeOffers(chain) \cup BasicOffers(chain) :
        /\ \/ header.Number \in {NilNumber, 0}
           \/ GetHeader(chain, header.ParentHash, header.Number - 1) # <<>>
        /\ header.Extra.len >= extraSeal
        /\ LET r == VerifySeal(chain, header, signatures)
           IN  /\ signatures' = r.cache
               /\ last' = [called |-> TRUE, via |-> "VerifySeal", header |-> header,
                           err |-> r.err, at |-> now, db0 |-> db, cache0 |-> signatures,
                           commitOk |-> TRUE]
    /\ UNCHANGED <<auxVars, chain, db, now, batchVars, mintVars>>

NextVerify == Tick \/ VerifyHeader \/ VerifySealCall

SpecVerify == InitVerify /\ [][NextVerify]_vars

(***************************************************************************)
(* VerifyHeaders: the call, its background task and the caller.            *)
(***************************************************************************)
BatchNow == MaxTime - 1

InitBatch ==
    /\ InitAuxVars
    /\ InitNode({Node0} \cup Nodes1)
    /\ now = BatchNow
    /\ last = NoCall
    /\ InitBatchVars
    /\ InitMintVars

\* Variant: the results channel is unbuffered.
resultsCap_unbuffered(batch) == 0

\* results := make(chan error, len(headers))
resultsCap(batch) == Len(batch)

\* headers[:i], the parents handed to verifyHeader for headers[i]
batchParents(batch, i) == SubSeq(batch, 1, i)

\* The call itself: the channels are made and header.Number.Int64() is read
\* for every header (a nil Number panics) before the task is launched.
VerifyHeadersCall ==
    /\ vpc = "idle"
    /\ \E batch \in Batches(chain, MaxBatch) :
        /\ headers' = batch
        /\ vpc' = IF \E i \in 1..Len(batch) : batch[i].Number = NilNumber
                  THEN "panic" ELSE "loop"
    /\ start' = [db |-> db, cache |-> signatures]
    /\ UNCHANGED <<auxVars, nodeVars, last, idx, verr, results, abort, received, sent, oks, mintVars>>

\* for i, header := range headers
TaskNext ==
    /\ vpc = "loop"
    /\ vpc' = IF idx < Len(headers) THEN "verifying" ELSE "done"
    /\ UNCHANGED <<auxVars, nodeVars, last, headers, idx, verr, results, abort, received, sent,
                   oks, start, mintVars>>

\* err := senate.verifyHeader(chain, header, headers[:i])
TaskVerify ==
    /\ vpc = "verifying"
    /\ \E commitOk \in BOOLEAN :
        LET r == verifyHeader(chain, headers[idx + 1], batchParents(headers, idx),
                              db, signatures, now, commitOk)
        IN  /\ db' = r.db
            /\ signatures' = r.cache
            /\ verr' = r.err
            /\ oks' = Append(oks, commitOk)
    /\ vpc' = "select"
    /\ UNCHANGED <<auxVars, chain, now, last, headers, idx, results, abort, received, sent,
                   start, mintVars>>

\* select { case results <- err: }
TaskSend ==
    /\ vpc = "select"
    /\ Len(results) < resultsCap(headers)
    /\ results' = Append(results, verr)
    /\ sent' = Append(sent, verr)
    /\ idx' = idx + 1
    /\ vpc' = "loop"
    /\ UNCHANGED <<auxVars, nodeVars, last, headers, verr, abort, received, oks, start, mintVars>>

\* select { case <-abort: return }
TaskAbort ==
    /\ vpc = "select"
    /\ abort
    /\ vpc' = "done"
    /\ UNCHANGED <<auxVars, nodeVars, last, headers, idx, verr, results, abort, received, sent,
                   oks, start, mintVars>>

\* The caller closes the abort channel.
CloseAbort ==
    /\ vpc \in {"loop", "verifying", "select", "done"}
    /\ ~abort
    /\ abort' = TRUE
    /\ UNCHANGED <<auxVars, nodeVars, last, headers, vpc, idx, verr, results, received, sent,
                   oks, start, mintVars>>

\* The caller reads one result.
Receive ==
    /\ results # <<>>
    /\ received' = Append(received, Head(results))
    /\ results' = Tail(results)
    /\ UNCHANGED <<auxVars, nodeVars, last, headers, vpc, idx, verr, abort, sent, oks, start,
                   mintVars>>

NextBatch ==
    \/ VerifyHeadersCall
    \/ TaskNext
    \/ TaskVerify
    \/ TaskSend
    \/ TaskAbort
    \/ CloseAbort
    \/ Receive

SpecBatch == InitBatch /\ [][NextBatch]_vars

(***************************************************************************)
(* Minting: a miner prepares, assembles and seals a block on the tip of    *)
(* its chain; once the slot has come the sealed block is delivered, and it *)
(* is verified against the same chain and store.  A step that returns an   *)
(* error ends the miner's work (mpc = "failed").                           *)
(***************************************************************************)
MaxChain == 3

\* The governance commands a miner may find in its block.
MintTxChoices == TxChoices \cup {<<[op |-> "config", arg |-> 2]>>}

\* The header a miner hands to Prepare: its Extra may be empty, shorter than
\* the vanity, or longer (what follows the vanity is then no payload), and
\* its other consensus fields may hold anything.
GivenShapes ==
    {[len |-> 0, vanity |-> 0, mix |-> 0, time |-> 0],
     [len |-> 10, vanity |-> 10, mix |-> 1, time |-> 3],
     [len |-> extraVanity, vanity |-> 0, mix |-> 0, time |-> 0],
     [len |-> extraVanity + 8, vanity |-> 10, mix |-> 1, time |-> 3]}

givenHeader(ch, coinbase, known, g) ==
    [blankHeader(ch, coinbase) EXCEPT
        !.ParentHash = IF known THEN @ ELSE BogusHash,
        !.Time = g.time, !.MixDigest = g.mix,
        !.Extra = [len |-> g.len, vanity |-> g.vanity, payload |-> NoPayload,
                   seal |-> ZeroSeal]]

\* The blocks a host may hand to Seal without having prepared them: children
\* of the tip, of any number, time, coinbase and Extra length.
SealOffers(ch) ==
    {headerOn(ch, 0, n, t, cb, 0, "empty", len, TRUE, 0, "parent", TRUE, <<>>, ZeroSeal) :
        n \in {0, Len(ch)}, t \in 0..MaxTime, cb \in {AddrA, AddrB},
        len \in {extraVanity - 1, extraVanity + extraSeal - 1, FullLen}}

InitMint ==
    /\ InitAuxVars
    /\ InitNode({Node0} \cup AheadNodes1)
    /\ now = 0
    /\ last = NoCall
    /\ InitBatchVars
    /\ InitMintVars

\* func (senate *Senate) Authorize(signer, signFn): it takes the engine's
\* lock, which Seal holds only while it reads the signer, so it may run at
\* any moment of the miner's work.  The signer is read by Seal alone: the
\* calls made before a Seal call and the calls made between its read of the
\* signer and its signature stand for the calls made at every other moment.
Authorize ==
    /\ mpc \in {"idle", "signing"}
    /\ \E a \in Addr \ {signer} : signer' = a
    /\ UNCHANGED <<auxVars, nodeVars, last, batchVars, work, mpc, merr, prep, given, sealIn,
                   stop, sealOut>>

\* func (senate *Senate) Prepare(chain, header) error
DoPrepare ==
    /\ mpc = "idle"
    /\ Len(chain) < MaxChain
    /\ \E coinbase \in Addr, known \in BOOLEAN, g \in GivenShapes :
        LET r == Prepare(chain, givenHeader(chain, coinbase, known, g), now)
        IN  /\ given' = givenHeader(chain, coinbase, known, g)
            /\ work' = r.header
            /\ merr' = r.err
            /\ mpc' = IF r.err = "nil" THEN "prepared" ELSE "failed"
    /\ prep' = now
    /\ UNCHANGED <<auxVars, nodeVars, last, batchVars, signer, sealIn, stop, sealOut>>

\* func (senate *Senate) FinalizeAndAssemble(chain, header, state, txs, ...)
DoFinalizeAndAssemble ==
    /\ mpc = "prepared"
    /\ \E txs \in MintTxChoices, commitOk \in BOOLEAN :
        LET r == FinalizeAndAssemble(chain, work, db, txs, commitOk)
        IN  /\ work' = r.block
            /\ db' = r.db
            /\ merr' = r.err
            /\ mpc' = IF r.err = "nil" THEN "assembled" ELSE "failed"
            /\ fin' = [pc |-> IF r.err = "nil" THEN "assembled" ELSE "failed",
                       txs |-> txs, assembled |-> r.block]
    /\ given' = blankHeader(chain, given.Coinbase)
    /\ UNCHANGED <<hashed, chain, signatures, now, last, batchVars, signer, prep,
                   sealIn, stop, sealOut>>

\* Seal called on `header`, up to the release of the lock: the checks, and
\* the read of the engine's signer.  signOk is whether the wallet will sign.
\* sealIn.called is set when the call has returned.
sealCall(header) ==
    \E signOk \in BOOLEAN :
        LET r == Seal(chain, header, signer, TRUE)
        IN  /\ work' = header
            /\ merr' = r.err
            /\ sealIn' = [called |-> r.err # "nil", header |-> header, signOk |-> signOk,
                          signer |-> signer, err |-> r.err]
            /\ mpc' = IF r.err = "nil" THEN "signing" ELSE "failed"
            /\ stop' = FALSE
            /\ sealOut' = <<>>

\* func (senate *Senate) Seal(chain, block, results, stop) error, on the
\* block the miner assembled
DoSeal ==
    /\ mpc = "assembled"
    /\ sealCall(work)
    /\ UNCHANGED <<auxVars, nodeVars, last, batchVars, signer, prep, given>>

\* Seal on a block the host got elsewhere
SealOffered ==
    /\ mpc = "idle"
    /\ Len(chain) < MaxChain
    /\ \E header \in SealOffers(chain) : sealCall(header)
    /\ UNCHANGED <<auxVars, nodeVars, last, batchVars, signer, prep, given>>

\* The rest of the Seal call, the lock released: the wallet signs for the
\* signer that was read, the seal is written and the task is launched.
SealSign ==
    /\ mpc = "signing"
    /\ LET r == Seal(chain, sealIn.header, sealIn.signer, sealIn.signOk)
       IN  /\ work' = r.header
           /\ merr' = r.err
           /\ sealIn' = [sealIn EXCEPT !.called = TRUE, !.err = r.err]
           /\ mpc' = IF r.err = "nil" THEN "sealing" ELSE "failed"
    /\ UNCHANGED <<auxVars, nodeVars, last, batchVars, signer, prep, given, stop, sealOut>>

\* The host closes the stop channel of the Seal call.  The channel is read
\* by the task alone: closing it while Seal is still signing is closing it
\* before the first step of the task.
CloseStop ==
    /\ mpc \in {"sealing", "sending"}
    /\ ~stop
    /\ stop' = TRUE
    /\ UNCHANGED <<auxVars, nodeVars, last, batchVars, signer, work, mpc, merr, prep, given,
                   sealIn, sealOut>>

\* select { case <-stop: return }
SealStop ==
    /\ mpc = "sealing"
    /\ stop
    /\ mpc' = "stopped"
    /\ UNCHANGED <<auxVars, nodeVars, last, batchVars, signer, work, merr, prep, given, sealIn,
                   stop, sealOut>>

\* select { case <-time.After(delay): }
SealTimer ==
    /\ mpc = "sealing"
    /\ timerFired(work, now)
    /\ mpc' = "sending"
    /\ UNCHANGED <<auxVars, nodeVars, last, batchVars, signer, work, merr, prep, given, sealIn,
                   stop, sealOut>>

\* select { case results <- block.WithSeal(header): default: log.Warn(...) }
\* `ready` is whether a receiver or a buffer slot is there to take the block.
SealSend ==
    /\ mpc = "sending"
    /\ \E ready \in BOOLEAN :
        IF ready
        THEN /\ sealOut' = Append(sealOut, [block |-> work, at |-> now, stopped |-> stop])
             /\ mpc' = "delivered"
        ELSE /\ sealOut' = sealOut
             /\ mpc' = "dropped"
    /\ UNCHANGED <<auxVars, nodeVars, last, batchVars, signer, work, merr, prep, given, sealIn,
                   stop>>

\* The delivered block is verified: VerifyHeader(chain, block.Header()).
VerifyMinted ==
    /\ mpc = "delivered"
    /\ LET r == verifyHeader(chain, work, <<>>, db, signatures, now, TRUE)
       IN  /\ db' = r.db
           /\ signatures' = r.cache
           /\ merr' = r.err
    /\ mpc' = "verified"
    /\ UNCHANGED <<auxVars, chain, now, last, batchVars, signer, work, prep, given, sealIn,
                   stop, sealOut>>

\* The host inserts the block the miner prepared, once verified, and mining
\* goes on.
InsertBlock ==
    /\ mpc = "verified"
    /\ merr = "nil"
    /\ given.Number > 0
    /\ chain' = Append(chain, work)
    /\ mpc' = "idle"
    /\ given' = Genesis
    /\ prep' = 0
    /\ sealIn' = NoSeal
    /\ stop' = FALSE
    /\ sealOut' = <<>>
    /\ fin' = NoFin
    /\ UNCHANGED <<hashed, db, signatures, now, last, batchVars, signer, work, merr>>

NextMint ==
    \/ Tick
    \/ Authorize
    \/ DoPrepare
    \/ DoFinalizeAndAssemble
    \/ DoSeal
    \/ SealOffered
    \/ SealSign
    \/ CloseStop
    \/ SealStop
    \/ SealTimer
    \/ SealSend
    \/ VerifyMinted
    \/ InsertBlock

SpecMint == InitMint /\ [][NextMint]_vars

(***************************************************************************)
(* The seal hash of pairs of headers: a block of the chain and headers     *)
(* that differ from it in the seal, in one other field, or in nothing.     *)
(* Number and Difficulty may be nil, or zero.                              *)
(***************************************************************************)
HashOffers(ch) ==
    LET h == Tip(ch)
    IN  {[h EXCEPT !.Extra.seal = sl] : sl \in Seals}
        \cup {[h EXCEPT !.ParentHash = BogusHash], [h EXCEPT !.UncleHash = "other"],
              [h EXCEPT !.Coinbase = AddrC], [h EXCEPT !.Root = ZeroHash],
              [h EXCEPT !.TxHash = BogusHash], [h EXCEPT !.ReceiptHash = BogusHash],
              [h EXCEPT !.Bloom = 1], [h EXCEPT !.GasLimit = 1],
              [h EXCEPT !.GasUsed = 1], [h EXCEPT !.Nonce = 1],
              [h EXCEPT !.Difficulty = @ + 1], [h EXCEPT !.Difficulty = 0],
              [h EXCEPT !.Difficulty = NilNumber],
              [h EXCEPT !.Number = @ + 1], [h EXCEPT !.Number = 0],
              [h EXCEPT !.Number = NilNumber], [h EXCEPT !.Time = @ + 1],
              [h EXCEPT !.MixDigest = 1], [h EXCEPT !.Extra.vanity = extraVanity],
              [h EXCEPT !.Extra.payload.Epoch = @ + 1],
              [h EXCEPT !.Extra.payload.Log = <<[op |-> "declare", arg |-> AddrB]>>],
              [h EXCEPT !.Extra.len = extraSeal - 1],
              [h EXCEPT !.Extra.len = extraVanity + extraSeal - 1,
                        !.Extra.vanity = extraVanity, !.Extra.payload = NoPayload],
              [h EXCEPT !.Extra.len = extraVanity + extraSeal - 1,
                        !.Extra.vanity = extraVanity - 1, !.Extra.payload = NoPayload,
                        !.Extra.seal = AddrB]}

InitSealHash ==
    /\ InitAuxVars
    /\ InitNode(Nodes1 \cup Nodes2)
    /\ now = 0
    /\ last = NoCall
    /\ InitBatchVars
    /\ InitMintVars

\* SealHash and SenateRLP applied to two headers.
HashPair ==
    /\ ~hashed.called
    /\ \E a \in HashOffers(chain), b \in HashOffers(chain) :
        hashed' = [called |-> TRUE, a |-> a, b |-> b,
                   rlpA |-> SenateRLP(a), rlpB |-> SenateRLP(b),
                   hashA |-> SealHash(a), hashB |-> SealHash(b)]
    /\ UNCHANGED <<nodeVars, last, batchVars, mintVars, fin>>

NextSealHash == HashPair

SpecSealHash == InitSealHash /\ [][NextSealHash]_vars

(***************************************************************************)
(* Author: any sequence of calls, on blocks of the chain and on headers    *)
(* offered by peers, well sealed or not.                                   *)
(***************************************************************************)
AuthorOffers(ch) ==
    {ch[i] : i \in 1..Len(ch)}
    \cup {headerOn(ch, 0, Len(ch), t, AddrA, 0, "empty", FullLen, TRUE, 0, "parent",
                   TRUE, <<>>, seal) : t \in {1, 2}, seal \in Seals}
    \cup {[Tip(ch) EXCEPT !.Extra.len = extraSeal - 1]}

InitAuthor ==
    /\ InitAuxVars
    /\ InitNode(Nodes)
    /\ now = 0
    /\ last = NoCall
    /\ InitBatchVars
    /\ InitMintVars

\* func (senate *Senate) Author(header) (common.Address, error)
Author ==
    /\ \E header \in AuthorOffers(chain) :
        LET r == ecrecover(header, signatures)
        IN  /\ signatures' = r.cache
            /\ last' = [called |-> TRUE, via |-> "Author", header |-> header,
                        err |-> r.err, address |-> r.address, at |-> now, db0 |-> db,
                        cache0 |-> signatures, commitOk |-> TRUE]
    /\ UNCHANGED <<chain, db, now, batchVars, mintVars, auxVars>>

NextAuthor == Author

SpecAuthor == InitAuthor /\ [][NextAuthor]_vars

(***************************************************************************)
(* Finalize: a node prepares and assembles a block on the tip of its chain *)
(* (DoPrepare, DoFinalizeAndAssemble) and Finalize is run on that block    *)
(* with the node's chain and store, on the block as it is or with the      *)
(* declared root or log altered, with the block's transactions or others.  *)
(***************************************************************************)
InitFinalize ==
    /\ InitAuxVars
    /\ InitNode({Node0} \cup Nodes1)
    /\ now = 0
    /\ last = NoCall
    /\ InitBatchVars
    /\ InitMintVars

\* The block reaches Finalize with another root or another log in its extra.
Alter ==
    /\ mpc = "assembled"
    /\ fin.pc = "assembled"
    /\ \/ work' = [work EXCEPT !.Extra.payload.Root = ZeroRoot]
       \/ work' = [work EXCEPT !.Extra.payload.Root.cands = @ \cup {AddrB}]
       \/ work' = [work EXCEPT !.Extra.payload.Log =
                                  <<[op |-> "declare", arg |-> AddrB]>>]
    /\ fin' = [fin EXCEPT !.pc = "altered"]
    /\ UNCHANGED <<nodeVars, last, batchVars, signer, mpc, merr, prep, given, sealIn,
                   stop, sealOut, hashed>>

\* func (senate *Senate) Finalize(chain, header, state, txs, uncles)
DoFinalize ==
    /\ mpc = "assembled"
    /\ fin.pc \in {"assembled", "altered"}
    /\ \E txs \in MintTxChoices, lost \in BOOLEAN :
        LET r == Finalize(chain, work, db, txs, lost)
        IN  /\ work' = r.header
            /\ fin' = [pc |-> "finalized", txs |-> fin.txs, assembled |-> fin.assembled,
                       header |-> work, ftxs |-> txs, out |-> r.out]
    /\ UNCHANGED <<nodeVars, last, batchVars, signer, mpc, merr, prep, given, sealIn,
                   stop, sealOut, hashed>>

NextFinalize ==
    \/ Tick
    \/ DoPrepare
    \/ DoFinalizeAndAssemble
    \/ Alter
    \/ DoFinalize

SpecFinalize == InitFinalize /\ [][NextFinalize]_vars

(***************************************************************************)
(* The background tasks under the scheduler: a node either runs one        *)
(* VerifyHeaders call or prepares, assembles and seals one block.  The     *)
(* goroutines and the clock always get to run (weak fairness); a select    *)
(* with several ready cases takes one of them.  The caller of              *)
(* VerifyHeaders never reads a result, which is the worst case for the     *)
(* task's sends; abort and stop may be closed at any time or never.        *)
(***************************************************************************)
InitLive ==
    /\ InitAuxVars
    /\ InitNode({Node0} \cup Nodes1)
    /\ now = BatchNow
    /\ last = NoCall
    /\ InitBatchVars
    /\ InitMintVars

\* The clock, looked at while a sealing task waits for its slot.
LiveTick == mpc = "sealing" /\ Tick

NextLive ==
    \/ LiveTick
    \/ (mpc = "idle" /\ VerifyHeadersCall)
    \/ TaskNext
    \/ TaskVerify
    \/ TaskSend
    \/ TaskAbort
    \/ CloseAbort
    \/ (vpc = "idle" /\ DoPrepare)
    \/ DoFinalizeAndAssemble
    \/ DoSeal
    \/ (vpc = "idle" /\ SealOffered)
    \/ SealSign
    \/ CloseStop
    \/ SealStop
    \/ SealTimer
    \/ SealSend

FairLive ==
    /\ WF_vars(LiveTick)
    /\ WF_vars(TaskNext)
    /\ WF_vars(TaskVerify)
    /\ WF_vars(TaskSend \/ TaskAbort)
    /\ WF_vars(SealTimer \/ SealStop)
    /\ WF_vars(SealSend)

SpecLive == InitLive /\ [][NextLive]_vars /\ FairLive

(***************************************************************************)
(* Properties.                                                             *)
(***************************************************************************)
StatelessErrs ==
    {"errUnknownBlock", "ErrFutureBlock", "errMissingVanity", "errMissingSignature",
     "errInvalidMixDigest", "errInvalidUncleHash"}

\* Errors returned before the governance log is replayed.
BeforeReplayErrs ==
    StatelessErrs \cup {"ErrUnknownAncestor", "ErrInvalidTimestamp", "errMalformedExtra",
                        "errUnknownConfig", "errSnapshotMissing"}

\* Errors returned before the seal is looked at.
BeforeSealErrs == BeforeReplayErrs \cup {"invalid trie root"}

\* The last VerifyHeader call: its header, the parent the chain has for it,
\* the decoded extras, the parent's config and snapshot.
lastH == last.header
viaVerifyHeader == last.called /\ last.via = "VerifyHeader"
viaVerifySeal == last.called /\ last.via = "VerifySeal"
lastParentOpt == GetHeader(chain, lastH.ParentHash, lastH.Number - 1)
lastP == lastParentOpt[1]
lastExtra == decodeHeaderExtra(lastH).extra
lastPExtra == decodeHeaderExtra(lastP).extra
lastConfig ==
    IF lastP.Number = 0 THEN BaseConfig ELSE chainConfigByHash(lastPExtra.Root.config).config
lastParentSnap ==
    IF lastP.Number = 0 THEN EmptySnap ELSE loadSnapshot(last.db0, lastPExtra.Root).snap
lastReplayRoot == SnapRoot(apply(lastParentSnap, lastH, lastExtra).snap)
lastSlotOwner ==
    LET validators == validatorsOf(lastConfig, lastP)
        slot == (lastH.Time - epochStartOf(lastP)) \div lastConfig.Period
    IN  validators[(slot % Len(validators)) + 1]

\* The outcome of verifying the first k headers of the batch in order, each
\* with the headers before it as parents, from the store and the cache the
\* call started with.
RECURSIVE RefRun(_)
RefRun(k) ==
    IF k = 0 THEN [err |-> "nil", db |-> start.db, cache |-> start.cache]
    ELSE verifyHeader(chain, headers[k], SubSeq(headers, 1, k - 1),
                      RefRun(k - 1).db, RefRun(k - 1).cache, now, oks[k])

\* C1: a VerifyHeaders call whose abort channel is not closed ends with
\* exactly len(batch) results delivered, the i-th being the outcome of
\* verifyHeader(headers[i]) with headers[0..i-1] as parents, and the caller
\* reads them in that order.
C1_BatchDeliversAll ==
    (vpc \in {"done", "panic"} /\ ~abort) =>
        /\ Len(sent) = Len(headers)
        /\ \A k \in 1..Len(headers) : sent[k] = RefRun(k).err
        /\ received \o results = sent

\* What holds of every call that launched its task: results are sent in input
\* order, none skipped or duplicated, and all of them unless abort is closed.
BatchInOrder ==
    vpc # "panic" =>
        /\ Len(sent) <= Len(headers)
        /\ \A k \in 1..Len(sent) : sent[k] = RefRun(k).err
        /\ received \o results = sent
        /\ (vpc = "done" /\ ~abort) => Len(sent) = Len(headers)

BatchInOrderReached == vpc = "done" /\ ~abort /\ Len(received) = MaxBatch

\* C2: once the abort channel is closed, the task delivers no further result
\* and, from the header boundary it reaches next (the select that follows the
\* verification in progress), goes on to no further header.
C2_AbortStopsTask ==
    [][abort => (sent' = sent /\ (vpc = "select" => vpc' \in {"select", "done"}))]_vars

\* C3: an accepted non-genesis header declares the root obtained by replaying
\* it on its parent's snapshot (the empty one when the parent is genesis);
\* a header that gets as far as the replay and declares another root is
\* rejected as "invalid trie root" and its seal is not looked at.
C3_ReplayToVerify ==
    (viaVerifyHeader /\ lastH.Number > 0) =>
        /\ last.err = "nil" => lastExtra.Root = lastReplayRoot
        /\ (last.err \notin BeforeReplayErrs /\ lastExtra.Root # lastReplayRoot) =>
              /\ last.err = "invalid trie root"
              /\ signatures = last.cache0
              /\ db = last.db0

C3_Witness ==
    /\ viaVerifyHeader /\ last.err = "nil" /\ lastH.Number = 2
    /\ lastExtra.Root = lastReplayRoot /\ lastExtra.Root # lastPExtra.Root

\* C4: an accepted non-genesis header, block 1 included, either repeats its
\* parent's (Epoch, EpochTime) or declares Epoch + 1 with EpochTime = Time.
C4_EpochMonotone ==
    (viaVerifyHeader /\ last.err = "nil" /\ lastH.Number > 0) =>
        \/ /\ lastExtra.Epoch = lastPExtra.Epoch
           /\ lastExtra.EpochTime = lastPExtra.EpochTime
        \/ /\ lastExtra.Epoch = lastPExtra.Epoch + 1
           /\ lastExtra.EpochTime = lastH.Time

\* C5: an accepted non-genesis header is sealed by the owner of its slot,
\* validators[((Time - epochStart) / Period) mod len(validators)]; a header
\* that gets as far as the seal check and is sealed by anyone else is
\* rejected as Unauthorized.
C5_SignerAuthorization ==
    (last.called /\ lastH.Number > 0) =>
        /\ last.err = "nil" => Recover(lastH).address = lastSlotOwner
        /\ (/\ last.err \notin BeforeSealErrs \cup {"panic"}
            /\ Recover(lastH).err = "nil"
            /\ Recover(lastH).address # lastSlotOwner) => last.err = "errUnauthorized"

C5_Witness ==
    /\ viaVerifyHeader /\ last.err = "errUnauthorized"
    /\ \E i \in 1..Len(validatorsOf(lastConfig, lastP)) :
          validatorsOf(lastConfig, lastP)[i] = lastH.Extra.seal
    /\ lastH.Time = epochStartOf(lastP) + lastConfig.Period

\* Whether the block at work went through Prepare (and not straight to Seal).
prepared == given.Number > 0

\* C6: a header produced by Prepare, FinalizeAndAssemble and Seal is accepted
\* by verifyHeader on a node with the same chain and store.
C6_MintVerifyAgree == (mpc = "verified" /\ prepared) => merr = "nil"

\* What holds when the header's coinbase is the engine's signer.
MintVerifyAgreeOwnCoinbase ==
    (mpc = "verified" /\ prepared /\ work.Coinbase = work.Extra.seal) => merr = "nil"

MintVerifyAgreeReached ==
    mpc = "verified" /\ prepared /\ merr = "nil" /\ work.Number = 2

\* C7: a header timed a full epoch or more after its parent's EpochTime that
\* repeats the parent's Epoch and EpochTime is rejected as InvalidTimestamp
\* (stated of the headers that have nothing else wrong: they pass the checks
\* made before the epoch check, declare the replayed root and are sealed by
\* the slot owner, and the store accepts the write).
C7_EpochAdvanceEnforced ==
    (/\ viaVerifyHeader /\ lastH.Number > 1
     /\ last.err \notin StatelessErrs \cup {"ErrUnknownAncestor", "errMalformedExtra"}
     /\ lastP.Time <= lastH.Time
     /\ lastExtra.Root = lastReplayRoot
     /\ Recover(lastH).address = lastSlotOwner
     /\ last.commitOk
     /\ lastH.Time - lastPExtra.EpochTime >= lastConfig.Epoch
     /\ lastExtra.Epoch = lastPExtra.Epoch
     /\ lastExtra.EpochTime = lastPExtra.EpochTime) => last.err = "ErrInvalidTimestamp"

\* C8: for a block above 1, Prepare declares Epoch + 1 and EpochTime = Time
\* whenever Time - parent.EpochTime >= config.Epoch, and otherwise repeats
\* the parent's Epoch and EpochTime.
C8_PrepareEpochCrossing ==
    (mpc = "prepared" /\ work.Number > 1) =>
        LET pextra == decodeHeaderExtra(Tip(chain)).extra
            config == chainConfigByHash(pextra.Root.config).config
            extra == decodeHeaderExtra(work).extra
        IN  IF work.Time - pextra.EpochTime >= config.Epoch
            THEN extra.Epoch = pextra.Epoch + 1 /\ extra.EpochTime = work.Time
            ELSE extra.Epoch = pextra.Epoch /\ extra.EpochTime = pextra.EpochTime

\* C9: a header is accepted only if parent.Time < header.Time, a header with
\* header.Time <= parent.Time is rejected as InvalidTimestamp, and a parent
\* that is missing, or of another number or hash, gives UnknownAncestor.
C9_StrictTimestamp ==
    (viaVerifyHeader /\ lastH.Number > 0 /\ last.err \notin StatelessErrs) =>
        /\ lastParentOpt = <<>> => last.err = "ErrUnknownAncestor"
        /\ lastParentOpt # <<>> =>
              /\ lastH.Time <= lastP.Time => last.err = "ErrInvalidTimestamp"
              /\ last.err = "nil" => lastP.Time < lastH.Time

\* C10: the stateless checks are made in the order UnknownBlock, FutureBlock
\* (Time = now passes), MissingVanity, MissingSignature, InvalidMixDigest,
\* InvalidUncleHash; each leaves the store and the signature cache as they
\* were; a header rejected as FutureBlock is not rejected as FutureBlock at
\* any time from header.Time on.
C10_StatelessPrecedence ==
    viaVerifyHeader =>
        /\ last.err = "errUnknownBlock" <=> lastH.Number = NilNumber
        /\ lastH.Number # NilNumber =>
            /\ last.err = "ErrFutureBlock" <=> lastH.Time > last.at
            /\ lastH.Time <= last.at =>
                /\ last.err = "errMissingVanity" <=> lastH.Extra.len < extraVanity
                /\ lastH.Extra.len >= extraVanity =>
                    /\ last.err = "errMissingSignature"
                          <=> lastH.Extra.len < extraVanity + extraSeal
                    /\ lastH.Extra.len >= extraVanity + extraSeal =>
                        /\ last.err = "errInvalidMixDigest" <=> lastH.MixDigest # 0
                        /\ lastH.MixDigest = 0 =>
                              (last.err = "errInvalidUncleHash"
                                  <=> lastH.UncleHash # "empty")
        /\ last.err \in StatelessErrs => (db = last.db0 /\ signatures = last.cache0)
        /\ last.err = "ErrFutureBlock" =>
              \A t \in lastH.Time..MaxTime :
                  verifyHeader(chain, lastH, <<>>, db, signatures, t,
                               last.commitOk).err # "ErrFutureBlock"

C10_Witness ==
    /\ viaVerifyHeader /\ last.err = "ErrFutureBlock"
    /\ lastH.Extra.len < extraVanity /\ lastH.MixDigest # 0
    /\ lastH.UncleHash # "empty"

\* C11: no block is sent on results once the stop channel of the Seal call is
\* closed, whether the slot delay has elapsed or not.
C11_SealCancellation ==
    \A i \in 1..Len(sealOut) : ~sealOut[i].stopped

\* C16: a successful Prepare leaves Extra = vanity(32) || encode(extra) ||
\* 65 zero bytes, the vanity being the start of the Extra passed in, padded
\* with zeros, and what followed it discarded; MixDigest is zero and
\* Difficulty is 1.  With an unknown parent Prepare returns UnknownAncestor
\* and Extra and Time are as they were passed in.
C16_PrepareFraming ==
    /\ mpc = "prepared" =>
          /\ work.Extra.len = extraVanity + EncodedLen + extraSeal
          /\ work.Extra.vanity = given.Extra.vanity
          /\ work.Extra.payload.ok
          /\ work.Extra.seal = ZeroSeal
          /\ work.MixDigest = 0
          /\ work.Difficulty = 1
    /\ (prepared /\ ~sealIn.called /\ mpc \in {"prepared", "failed"}) =>
          (GetHeader(chain, given.ParentHash, given.Number - 1) = <<>>
              <=> (mpc = "failed" /\ merr = "ErrUnknownAncestor"))
    /\ (prepared /\ mpc = "failed" /\ merr = "ErrUnknownAncestor") =>
          (work.Extra = given.Extra /\ work.Time = given.Time)

C16_Witness ==
    /\ mpc = "prepared" /\ given.Extra.len > extraVanity /\ given.MixDigest # 0
    /\ work.Number = 2

\* C18: a Seal call sends at most one block on results; the send does not
\* block (with nobody to take the block it is dropped and the task ends);
\* the block sent is the one Seal was called with, the signature of the
\* signer the call read in its seal bytes (the engine may have been given
\* another signer since); and it is not sent before the clock reaches
\* header.Time.
C18_SealDelivery ==
    /\ Len(sealOut) <= 1
    /\ \A i \in 1..Len(sealOut) :
          /\ sealOut[i].at >= sealOut[i].block.Time
          /\ sealOut[i].block = [sealIn.header EXCEPT !.Extra.seal = sealIn.signer]
          /\ sealOut[i].block.Extra.seal # ZeroSeal
    /\ mpc \in {"signing", "sealing", "sending", "dropped", "stopped"} => sealOut = <<>>
    /\ mpc \in {"delivered", "verified"} => Len(sealOut) = 1

C18_Witness ==
    /\ mpc = "delivered" /\ sealOut[1].at = work.Time /\ prep < work.Time
    /\ prepared

\* Authorize ran between the read of the signer and the signature: the block
\* delivered carries the seal of the signer the engine had before.
SealedByFormerSigner ==
    /\ mpc = "delivered" /\ prepared
    /\ sealOut[1].block.Extra.seal = sealIn.signer /\ sealIn.signer # signer

\* The error Seal is to return for the header it was called with.
sealExpected ==
    LET h == sealIn.header
        popt == GetHeader(chain, h.ParentHash, h.Number - 1)
        cfg == chainConfig(popt[1])
    IN  IF h.Number = 0 THEN "errUnknownBlock"
        ELSE IF h.Extra.len < extraVanity THEN "errMissingVanity"
        ELSE IF h.Extra.len < extraVanity + extraSeal THEN "errMissingSignature"
        ELSE IF cfg.err # "nil" THEN cfg.err
        ELSE IF Len(validatorsOf(cfg.config, popt[1])) = 0
                \/ h.Coinbase # slotOwner(cfg.config, popt[1], h.Time)
             THEN "errUnauthorized"
        ELSE IF ~sealIn.signOk THEN "errSign"
        ELSE "nil"

\* C19: Seal returns UnknownBlock for block 0, MissingVanity and
\* MissingSignature for a short Extra, the config-lookup error, Unauthorized
\* when header.Coinbase does not own the slot of header.Time, and the
\* signer's error, in that order; in each case no task is launched and no
\* block is sent.  A block is sent only if header.Coinbase was in turn.
C19_SealPreconditions ==
    sealIn.called =>
        /\ sealIn.err = sealExpected
        /\ sealIn.err # "nil" => (mpc = "failed" /\ sealOut = <<>>)
        /\ sealOut # <<>> =>
              LET h == sealIn.header
                  parent == GetHeader(chain, h.ParentHash, h.Number - 1)[1]
              IN  h.Coinbase = slotOwner(chainConfig(parent).config, parent, h.Time)

C19_Witness ==
    /\ sealIn.called /\ sealIn.err = "errUnauthorized" /\ mpc = "failed"
    /\ sealIn.header.Extra.len = FullLen /\ ~sealIn.signOk

\* C13 (verification): an accepted header is timed at least one Period of
\* its parent's config after its parent.
C13_SlotTiming ==
    (viaVerifyHeader /\ last.err = "nil" /\ lastH.Number > 0) =>
        lastH.Time >= lastP.Time + lastConfig.Period

\* C13 (minting): Prepare sets Time = max(parent.Time + Period, now), Period
\* being that of the parent's config, the base config for block 1.
PrepareSlotTime ==
    mpc = "prepared" =>
        LET parent == Tip(chain)
            period == chainConfig(parent).config.Period
        IN  /\ work.Time >= parent.Time + period
            /\ work.Time >= prep
            /\ work.Time \in {parent.Time + period, prep}

PrepareSlotTimeReached ==
    mpc = "prepared" /\ work.Number = 2 /\ work.Time > prep
    /\ chainConfig(Tip(chain)).config.Period = 2

\* Whether the header of the last call passes every check that precedes the
\* commit: the stateless ones, parent linkage, timestamp, extra decoding,
\* snapshot load, epoch continuity, root equality, seal and turn.
lastPassesChecks ==
    /\ lastH.Number > 0
    /\ lastH.Time <= last.at
    /\ lastH.Extra.len >= extraVanity + extraSeal
    /\ lastH.MixDigest = 0
    /\ lastH.UncleHash = "empty"
    /\ lastParentOpt # <<>>
    /\ lastP.Time <= lastH.Time
    /\ decodeHeaderExtra(lastH).err = "nil"
    /\ parentState(last.db0, lastH, lastP).err = "nil"
    /\ epochContinuous(lastH, lastExtra, parentState(last.db0, lastH, lastP).parentHeaderExtra)
    /\ lastExtra.Root = lastReplayRoot
    /\ Recover(lastH).err = "nil"
    /\ Recover(lastH).address = lastSlotOwner

\* C17: verification writes the snapshot exactly when every preceding check
\* passed; a rejected header leaves the store as it was; a failed write is
\* reported as the snapshot-write error and the header is not accepted.
C17_CommitOnSuccess ==
    (viaVerifyHeader /\ lastH.Number # 0) =>
        /\ last.err # "nil" => db = last.db0
        /\ last.err = "nil" => (db = last.db0 \cup {lastReplayRoot} /\ last.commitOk)
        /\ last.err \in {"nil", "failed to write snapshot"} <=> lastPassesChecks
        /\ (lastPassesChecks /\ ~last.commitOk) => last.err = "failed to write snapshot"

C17_Witness ==
    /\ viaVerifyHeader /\ last.err = "errUnauthorized" /\ lastH.Number = 2
    /\ lastExtra.Root = lastReplayRoot /\ lastReplayRoot \notin last.db0

\* C17 (batch): when the task starts on header i, the snapshot of an accepted
\* header i-1 is in the store.
BatchCommitBeforeLoad ==
    (vpc = "verifying" /\ idx > 0 /\ sent[idx] = "nil") =>
        decodeHeaderExtra(headers[idx]).extra.Root \in db

BatchCommitBeforeLoadReached ==
    /\ vpc = "verifying" /\ idx > 0 /\ sent[idx] = "nil"
    /\ decodeHeaderExtra(headers[idx]).extra.Root \notin start.db

\* C20: a header with a nil Number does not crash VerifyHeaders; its result,
\* UnknownBlock, is delivered at its position and the other headers of the
\* batch get theirs.
C20_NilNumberIsError ==
    /\ vpc # "panic"
    /\ (vpc = "done" /\ ~abort) =>
          /\ Len(sent) = Len(headers)
          /\ \A k \in 1..Len(headers) :
                headers[k].Number = NilNumber => sent[k] = "errUnknownBlock"

\* What VerifyHeader does with a nil Number.
NilNumberSingle ==
    (viaVerifyHeader /\ lastH.Number = NilNumber) =>
        (last.err = "errUnknownBlock" /\ db = last.db0 /\ signatures = last.cache0)

NilNumberSingleReached == viaVerifyHeader /\ lastH.Number = NilNumber

\* Whether two headers with an Extra of 65 bytes or more are equal in every
\* field and in Extra[0 .. len(Extra)-65): the headers are the same once
\* the last 65 bytes of each Extra are taken off.
sameButSeal(a, b) ==
    [a EXCEPT !.Extra = sigPart(a.Extra)] = [b EXCEPT !.Extra = sigPart(b.Extra)]

\* Whether neither Number nor Difficulty of the header is nil.
numbersSet(h) == h.Number # NilNumber /\ h.Difficulty # NilNumber

\* C12: two headers equal in every field and in Extra but for its last 65
\* bytes have the same signing preimage and the same seal hash; headers
\* that differ anywhere else have different preimages.
C12_SealHashIndependence ==
    (/\ hashed.called
     /\ hashed.a.Extra.len >= extraSeal
     /\ hashed.b.Extra.len >= extraSeal) =>
        /\ sameButSeal(hashed.a, hashed.b) =>
              (hashed.rlpA = hashed.rlpB /\ hashed.hashA = hashed.hashB)
        /\ ~sameButSeal(hashed.a, hashed.b) => hashed.rlpA # hashed.rlpB

\* The first half holds: the preimage and the hash do not depend on the
\* last 65 bytes of Extra.
SealHashIgnoresSeal ==
    (/\ hashed.called
     /\ hashed.a.Extra.len >= extraSeal
     /\ hashed.b.Extra.len >= extraSeal
     /\ sameButSeal(hashed.a, hashed.b)) =>
        (hashed.rlpA = hashed.rlpB /\ hashed.hashA = hashed.hashB)

C12_Witness ==
    /\ hashed.called /\ hashed.a # hashed.b
    /\ hashed.a.Extra.seal = AddrA /\ hashed.b.Extra.seal = ForeignSeal
    /\ hashed.a.Extra.len = FullLen
    /\ hashed.hashA = hashed.hashB

\* The second half holds of headers whose Number and Difficulty are set:
\* each of the fifteen fields, and what precedes the last 65 bytes of
\* Extra, tells their preimages apart.
SealHashCoversFields ==
    (/\ hashed.called
     /\ hashed.a.Extra.len >= extraSeal
     /\ hashed.b.Extra.len >= extraSeal
     /\ numbersSet(hashed.a) /\ numbersSet(hashed.b)
     /\ ~sameButSeal(hashed.a, hashed.b)) =>
        (hashed.rlpA # hashed.rlpB /\ hashed.hashA # hashed.hashB)

\* A header with a nil Number and one with Number 0, alike elsewhere, have
\* one preimage and one seal hash.
NilNumberSameHash ==
    /\ hashed.called
    /\ hashed.a.Number = NilNumber /\ hashed.b.Number = 0
    /\ hashed.a.Extra.len >= extraSeal
    /\ [hashed.a EXCEPT !.Number = 0] = hashed.b
    /\ hashed.hashA = hashed.hashB

\* C15: every entry of the signature cache is the address recovered from the
\* seal of the header it is keyed by, and only successful recoveries are in
\* it; Author gives the same address and error for a header whether its
\* entry is in the cache, was never there, or has been evicted.
C15_CacheTransparency ==
    /\ \A i \in 1..Len(signatures) :
          /\ signatures[i][1].Extra.len >= extraSeal
          /\ Recover(signatures[i][1]).err = "nil"
          /\ signatures[i][2] = Recover(signatures[i][1]).address
    /\ \A h \in AuthorOffers(chain) :
          /\ ecrecover(h, signatures).err = ecrecover(h, <<>>).err
          /\ ecrecover(h, signatures).address = ecrecover(h, <<>>).address
    /\ (last.called /\ last.via = "Author") =>
          /\ last.err = ecrecover(lastH, <<>>).err
          /\ last.address = ecrecover(lastH, <<>>).address

\* Author of a block whose entry was in the cache and has been evicted.
C15_Witness ==
    /\ last.called /\ last.via = "Author" /\ last.err = "nil"
    /\ Len(chain) = 3 /\ lastH = chain[2]
    /\ Len(last.cache0) = SigCacheSize
    /\ CacheGet(last.cache0, Hash(lastH)) = <<>>
    /\ CacheGet(signatures, Hash(lastH)) # <<>>

\* The extra FinalizeAndAssemble builds from the header Finalize was called
\* on and the transactions Finalize was given.
finRebuilt ==
    decodeHeaderExtra(FinalizeAndAssemble(chain, fin.header, db, fin.ftxs, TRUE).header).extra

\* C14: Finalize on a block assembled by FinalizeAndAssemble, with the same
\* parent snapshot, header and transactions, completes; and Finalize
\* completes only on a header whose extra, governance log and Root
\* included, is the one replaying the block's transactions produces.
C14_FinalizeConvergence ==
    fin.pc = "finalized" =>
        /\ (fin.header = fin.assembled /\ fin.ftxs = fin.txs) => fin.out = "done"
        /\ fin.out = "done" => decodeHeaderExtra(fin.header).extra = finRebuilt

\* The first half of C14: the two paths agree on what the miner assembled.
FinalizeAgreesOnAssembled ==
    (fin.pc = "finalized" /\ fin.header = fin.assembled /\ fin.ftxs = fin.txs) =>
        (fin.out = "done" /\ decodeHeaderExtra(fin.header).extra = finRebuilt)

FinalizeAgreesOnAssembledReached ==
    /\ fin.pc = "finalized" /\ fin.header = fin.assembled /\ fin.ftxs = fin.txs
    /\ fin.txs # <<>> /\ fin.header.Number = 2

\* What Finalize does compare: the log and the validators.
FinalizeChecksLog ==
    (fin.pc = "finalized" /\ fin.out = "done") =>
        /\ decodeHeaderExtra(fin.header).extra.Log = finRebuilt.Log
        /\ decodeHeaderExtra(fin.header).extra.Validators = finRebuilt.Validators

\* C21: the task of a VerifyHeaders call comes to its end, and so does the
\* task of a Seal call (the block sent, dropped, or the task stopped),
\* whether or not anybody reads the results or closes abort or stop.
C21_TasksTerminate ==
    /\ (vpc = "loop") ~> (vpc = "done")
    /\ (mpc = "sealing") ~> (mpc \in {"delivered", "dropped", "stopped"})

\* The VerifyHeaders task never finds the results channel full.
ResultsNeverFull ==
    vpc = "select" => Len(results) < resultsCap(headers)

\* A task that ended with every result of the batch unread and abort open.
C21_Witness ==
    /\ vpc = "done" /\ ~abort /\ received = <<>>
    /\ Len(headers) = MaxBatch /\ Len(results) = MaxBatch

\* A sealing task that ended with its block unread and stop open, having
\* waited for its slot.
SealTaskEndedUnread ==
    mpc = "dropped" /\ ~stop /\ sealOut = <<>> /\ prep < work.Time

====
